---------------------------- MODULE Spec2Model ----------------------------
(***************************************************************************)
(* PathHelperUtil (src/src/path-helper-util.ts): a registry that keeps its *)
(* entries as properties of one plain JavaScript object, this.paths.       *)
(*                                                                         *)
(* The model keeps a heap of JavaScript objects (own properties in         *)
(* creation order plus a prototype link), because every question about the *)
(* registry is a question about that object: which keys are own            *)
(* properties, in which order Object.values walks them, what a property    *)
(* read finds on the prototype chain, and which references the caller      *)
(* shares with the registry.                                               *)
(*                                                                         *)
(* Arrays (navs) are modelled as immutable values: the model assigns whole *)
(* arrays and never changes one in place.                                  *)
(***************************************************************************)
EXTENDS Integers, Sequences, FiniteSets, TLC

VARIABLES
    heap,        \* object id -> object, the objects still referenced
    paths,       \* this.paths: reference to the registry object
    ret,         \* what the last call returned to the caller
    snap,        \* reference the caller kept to a getPaths() result (0: none)
    registered,  \* history: key -> arguments of its latest registerPath call
    regOrder,    \* history: keys in the order of their first registration
    last         \* history: the last step, [op, key]

vars == <<heap, paths, ret, snap, registered, regOrder, last>>

(***************************************************************************)
(* Input sets.  Every set is finite and unreferenced objects are dropped,  *)
(* so the reachable states are finite with no bound on the number of      *)
(* calls.                                                                  *)
(***************************************************************************)
RegKeys == {"home", "2", "__proto__"}
OrderKeys == {"home", "about", "2", "10"}
CallerKeys == {"home", "__proto__"}
QueryKeys == RegKeys \cup {"constructor", "navs", "label", "missing"}
NavNames == {"main", "footer", "nonexistent-nav"}
GroupNames == {"user", "", "User"}

(***************************************************************************)
(* JavaScript values.  One record shape for all of them, so that any two   *)
(* values can be compared: t is the kind, s the payload of a string or the *)
(* name of a function, ref the reference of an object, arr the elements of *)
(* an array of strings.  ref = 0 is Object.prototype, which is built in.   *)
(***************************************************************************)
Undefined == [t |-> "undefined", s |-> "", ref |-> 0, arr |-> <<>>]
Null == [t |-> "null", s |-> "", ref |-> 0, arr |-> <<>>]
Str(x) == [t |-> "string", s |-> x, ref |-> 0, arr |-> <<>>]
Fn(f) == [t |-> "function", s |-> f, ref |-> 0, arr |-> <<>>]
Obj(r) == [t |-> "object", s |-> "", ref |-> r, arr |-> <<>>]
Arr(a) == [t |-> "array", s |-> "", ref |-> 0, arr |-> a]

ObjectPrototype == 0
NoProto == -1

Range(f) == {f[x] : x \in DOMAIN f}

\* typeof v
TypeOf(v) ==
    CASE v.t = "undefined" -> "undefined"
      [] v.t = "string" -> "string"
      [] v.t = "function" -> "function"
      [] OTHER -> "object"

\* ToBoolean(v), the test `obj && ...` applies
Truthy(v) ==
    CASE v.t = "undefined" -> FALSE
      [] v.t = "null" -> FALSE
      [] v.t = "string" -> v.s # ""
      [] OTHER -> TRUE

\* Members of the built-in Object.prototype that are plain methods.
ObjectPrototypeMethods ==
    {"constructor", "toString", "valueOf", "hasOwnProperty", "isPrototypeOf",
     "propertyIsEnumerable", "toLocaleString"}

\* Canonical array-index strings among the model's keys, with their numbers.
\* (TLC cannot parse a string; the table is CanonicalNumericIndexString on
\* the keys the model uses.)
ArrayIndexKeys == {"2", "10"}
ToIndex(k) == IF k = "2" THEN 2 ELSE IF k = "10" THEN 10 ELSE -1

(***************************************************************************)
(* Objects: props (own properties), order (the keys that are no array      *)
(* index, in creation order: an engine keeps indexed properties apart and  *)
(* their creation order is not observable), proto (the prototype: an       *)
(* object id, ObjectPrototype or NoProto).                                 *)
(***************************************************************************)
EmptyProps == [k \in {} |-> Undefined]
EmptyObject == [props |-> EmptyProps, order |-> <<>>, proto |-> ObjectPrototype]

\* The value that denotes prototype p.
ProtoValue(p) == IF p = NoProto THEN Null ELSE Obj(p)

RECURSIVE GetFrom(_, _, _, _)
\* O.[[Get]](k, receiver), walking the prototype chain from o.
GetFrom(h, o, k, receiver) ==
    IF o = NoProto THEN Undefined
    ELSE IF o = ObjectPrototype THEN
        IF k = "__proto__"
        THEN IF receiver = ObjectPrototype THEN Null ELSE ProtoValue(h[receiver].proto)
        ELSE IF k \in ObjectPrototypeMethods THEN Fn(k)
        ELSE Undefined
    ELSE IF k \in DOMAIN h[o].props THEN h[o].props[k]
    ELSE GetFrom(h, h[o].proto, k, receiver)

\* obj[k] for an object reference r
Get(h, r, k) == GetFrom(h, r, k, r)

RECURSIVE HasPropertyFrom(_, _, _)
HasPropertyFrom(h, o, k) ==
    IF o = NoProto THEN FALSE
    ELSE IF o = ObjectPrototype THEN k = "__proto__" \/ k \in ObjectPrototypeMethods
    ELSE k \in DOMAIN h[o].props \/ HasPropertyFrom(h, h[o].proto, k)

\* `k in v`: "true", "false", or "TypeError" when v is not an object.
JsIn(h, k, v) ==
    CASE v.t = "object" -> IF HasPropertyFrom(h, v.ref, k) THEN "true" ELSE "false"
      [] v.t = "array" -> "false"
      [] v.t = "function" -> "false"
      [] OTHER -> "TypeError"

\* Mutant of Set: the assignment replaces the properties of r by k alone.
SetReplacing(h, r, k, v) ==
    [h EXCEPT ![r].props = (k :> v),
              ![r].order = IF k \in ArrayIndexKeys THEN <<>> ELSE <<k>>]

\* obj[k] = v for an object reference r whose chain ends in Object.prototype:
\* an own property is overwritten in place; "__proto__" reaches the setter of
\* Object.prototype, which replaces the prototype when v is an object or null
\* and does nothing otherwise; any other key becomes a new own property.
Set(h, r, k, v) ==
    IF k \in DOMAIN h[r].props THEN [h EXCEPT ![r].props[k] = v]
    ELSE IF k = "__proto__" THEN
        IF v.t = "object" THEN [h EXCEPT ![r].proto = v.ref]
        ELSE IF v.t = "null" THEN [h EXCEPT ![r].proto = NoProto]
        ELSE h
    ELSE [h EXCEPT ![r].props = (k :> v) @@ h[r].props,
                   ![r].order = IF k \in ArrayIndexKeys THEN @ ELSE Append(@, k)]

\* delete obj[k]
Delete(h, r, k) ==
    IF k \in DOMAIN h[r].props
    THEN [h EXCEPT ![r].props = [j \in DOMAIN h[r].props \ {k} |-> h[r].props[j]],
                   ![r].order = SelectSeq(h[r].order, LAMBDA j : j # k)]
    ELSE h

RECURSIVE SortedIndexKeys(_)
\* The array-index keys of S in ascending numeric order.
SortedIndexKeys(S) ==
    IF S = {} THEN <<>>
    ELSE LET m == CHOOSE k \in S : \A j \in S : ToIndex(k) <= ToIndex(j)
         IN <<m>> \o SortedIndexKeys(S \ {m})

\* Mutant of OwnKeys: the named keys come before the array-index keys.
OwnKeysNamedFirst(o) == o.order \o SortedIndexKeys(DOMAIN o.props \cap ArrayIndexKeys)

\* OrdinaryOwnPropertyKeys: array-index keys ascending, then the other string
\* keys in creation order.
OwnKeys(o) == SortedIndexKeys(DOMAIN o.props \cap ArrayIndexKeys) \o o.order

\* Object.values(obj)
ObjectValues(h, r) ==
    LET ks == OwnKeys(h[r]) IN [i \in 1..Len(ks) |-> h[r].props[ks[i]]]

\* { ...obj }: a new object with the own properties of obj, created in the
\* order of OwnKeys, and the default prototype.
Spread(h, r) ==
    [props |-> h[r].props, order |-> h[r].order, proto |-> ObjectPrototype]

\* v[k] for a value v; a primitive, a function or an array has none of the
\* properties the registry reads.
GetV(h, v, k) == IF v.t = "object" THEN Get(h, v.ref, k) ELSE Undefined

\* arr.includes(x)
Includes(v, x) == v.t = "array" /\ x \in Range(v.arr)

(***************************************************************************)
(* Allocation.  A new object gets an unused id.  References are opaque to  *)
(* the program, so after every step the objects still referenced by the   *)
(* registry or the caller are renumbered in the order a walk from          *)
(* this.paths, the kept snapshot and the last result meets them, and the   *)
(* others are dropped.                                                     *)
(***************************************************************************)
FreshIds(h, n) == [i \in 1..n |-> Cardinality(DOMAIN h) + i]

Alloc(h, ids, objs) ==
    [i \in DOMAIN h \cup Range(ids) |->
        IF i \in DOMAIN h THEN h[i]
        ELSE objs[CHOOSE j \in DOMAIN ids : ids[j] = i]]

IsHeapRef(r) == r # ObjectPrototype /\ r # NoProto

\* The references object o holds: its prototype, then its property values.
Children(o) ==
    LET ks == OwnKeys(o)
    IN <<o.proto>> \o [i \in 1..Len(ks) |->
                         IF o.props[ks[i]].t = "object" THEN o.props[ks[i]].ref
                         ELSE ObjectPrototype]

RECURSIVE Walk(_, _, _)
Walk(h, queue, seen) ==
    IF queue = <<>> THEN seen
    ELSE IF ~IsHeapRef(Head(queue)) \/ Head(queue) \in Range(seen)
         THEN Walk(h, Tail(queue), seen)
         ELSE Walk(h, Tail(queue) \o Children(h[Head(queue)]), Append(seen, Head(queue)))

Renamed(seen, r) ==
    IF IsHeapRef(r) THEN CHOOSE i \in DOMAIN seen : seen[i] = r ELSE r

RenamedObject(seen, o) ==
    [props |-> [k \in DOMAIN o.props |->
                  IF o.props[k].t = "object"
                  THEN Obj(Renamed(seen, o.props[k].ref))
                  ELSE o.props[k]],
     order |-> o.order,
     proto |-> Renamed(seen, o.proto)]

\* The step's outcome: heap h, result r and kept snapshot s, renumbered.
Commit(h, r, s) ==
    LET seen == Walk(h, <<paths, s>> \o r.refs, <<>>)
    IN /\ heap' = [i \in DOMAIN seen |-> RenamedObject(seen, h[seen[i]])]
       /\ ret' = [r EXCEPT !.refs = [i \in DOMAIN r.refs |-> Renamed(seen, r.refs[i])]]
       /\ snap' = Renamed(seen, s)
       /\ paths' = Renamed(seen, paths)

(***************************************************************************)
(* PathHelperUtil                                                          *)
(***************************************************************************)

\* Mutant of isPath: the test typeof obj === "object" is missing.
isPathNoTypeof(h, obj) ==
    IF ~Truthy(obj) THEN "false"
    ELSE IF JsIn(h, "path", obj) # "true" THEN JsIn(h, "path", obj)
    ELSE IF JsIn(h, "label", obj) # "true" THEN JsIn(h, "label", obj)
    ELSE JsIn(h, "navs", obj)

\* isPath(obj): "true", "false" or "TypeError".  && evaluates left to right
\* and stops at the first falsy operand.
isPath(h, obj) ==
    IF ~Truthy(obj) THEN "false"
    ELSE IF TypeOf(obj) # "object" THEN "false"
    ELSE IF JsIn(h, "path", obj) # "true" THEN JsIn(h, "path", obj)
    ELSE IF JsIn(h, "label", obj) # "true" THEN JsIn(h, "label", obj)
    ELSE JsIn(h, "navs", obj)

\* The default of the parameter navs: used when the argument is undefined.
DefaultNavs(navs) == IF navs = Undefined THEN Arr(<<>>) ELSE navs

\* The object literal registerPath stores.
Path(pathFunction, label, navs, group) ==
    [props |-> [k \in {"path", "label", "navs", "group"} |->
                  CASE k = "path" -> pathFunction
                    [] k = "label" -> label
                    [] k = "navs" -> navs
                    [] k = "group" -> group],
     order |-> <<"path", "label", "navs", "group">>,
     proto |-> ObjectPrototype]

\* Mutant of NavLink: the projection leaves group out.
NavLinkNoGroup(h, pathObj) ==
    [props |-> [k \in {"path", "label", "group"} |->
                  IF k = "group" THEN Undefined ELSE GetV(h, pathObj, k)],
     order |-> <<"path", "label", "group">>,
     proto |-> ObjectPrototype]

\* The object literal the queries build from a stored entry.
NavLink(h, pathObj) ==
    [props |-> [k \in {"path", "label", "group"} |-> GetV(h, pathObj, k)],
     order |-> <<"path", "label", "group">>,
     proto |-> ObjectPrototype]

\* Mutant of NavLinkRef: the query returns the stored entry itself.
NavLinkAlias(pathObj, id) == IF pathObj.t = "object" THEN pathObj.ref ELSE id

\* Mutant of PathsCopyRef: getPaths returns this.paths itself.
PathsAlias(src, id) == src

\* An object literal evaluates to a reference to the new object (id), never
\* to the object it was built from.
NavLinkRef(pathObj, id) == id

\* { ...this.paths } evaluates to a reference to the new object.
PathsCopyRef(src, id) == id

\* Object.values(this.paths).filter(this.isPath)
PathValues(h) ==
    SelectSeq(ObjectValues(h, paths), LAMBDA obj : isPath(h, obj) = "true")

\* The stored values extractNavLinks projects, in the order of Object.values.
NavMatches(h, navName) ==
    SelectSeq(PathValues(h), LAMBDA pathObj : Includes(GetV(h, pathObj, "navs"), navName))

\* The stored values extractGroupPaths projects.
GroupMatches(h, groupName) ==
    SelectSeq(PathValues(h), LAMBDA pathObj : GetV(h, pathObj, "group") = Str(groupName))

\* filter(this.isPath) applies `in` to a primitive
FilterThrows(h) ==
    LET values == ObjectValues(h, paths)
    IN \E i \in DOMAIN values : isPath(h, values[i]) = "TypeError"

(***************************************************************************)
(* What a query evaluates to before its result objects are allocated: the  *)
(* kind of completion and the stored values (src) it projects.             *)
(***************************************************************************)
extractNavLinksCall(h, navName) ==
    IF FilterThrows(h) THEN [kind |-> "throw", src |-> <<>>]
    ELSE [kind |-> "NavLink[]", src |-> NavMatches(h, navName)]

extractGroupPathsCall(h, groupName) ==
    IF FilterThrows(h) THEN [kind |-> "throw", src |-> <<>>]
    ELSE [kind |-> "NavLink[]", src |-> GroupMatches(h, groupName)]

getPathCall(h, key) ==
    LET pathObj == Get(h, paths, key)
    IN CASE isPath(h, pathObj) = "true" -> [kind |-> "NavLink", src |-> <<pathObj>>]
         [] isPath(h, pathObj) = "false" -> [kind |-> "undefined", src |-> <<>>]
         [] OTHER -> [kind |-> "throw", src |-> <<>>]

Void == [kind |-> "void", refs |-> <<>>]

\* Allocate the NavLinks of call.src and return them.
ReturnNavLinks(call) ==
    LET ids == FreshIds(heap, Len(call.src))
        objs == [i \in DOMAIN call.src |-> NavLink(heap, call.src[i])]
        refs == [i \in DOMAIN call.src |-> NavLinkRef(call.src[i], ids[i])]
    IN Commit(Alloc(heap, ids, objs), [kind |-> call.kind, refs |-> refs], snap)

registerPath(key, pathFunction, label, navs, group) ==
    /\ LET ids == FreshIds(heap, 1)
           obj == Path(pathFunction, label, DefaultNavs(navs), group)
       IN Commit(Set(Alloc(heap, ids, <<obj>>), paths, key, Obj(ids[1])), Void, snap)
    /\ registered' = (key :> [path |-> pathFunction, label |-> label,
                              navs |-> navs, group |-> group]) @@ registered
    /\ regOrder' = IF key \in Range(regOrder) THEN regOrder ELSE Append(regOrder, key)
    /\ last' = [op |-> "registerPath", key |-> key]

extractNavLinks(navName) ==
    /\ ReturnNavLinks(extractNavLinksCall(heap, navName))
    /\ last' = [op |-> "extractNavLinks", key |-> navName]
    /\ UNCHANGED <<registered, regOrder>>

extractGroupPaths(groupName) ==
    /\ ReturnNavLinks(extractGroupPathsCall(heap, groupName))
    /\ last' = [op |-> "extractGroupPaths", key |-> groupName]
    /\ UNCHANGED <<registered, regOrder>>

getPath(key) ==
    /\ ReturnNavLinks(getPathCall(heap, key))
    /\ last' = [op |-> "getPath", key |-> key]
    /\ UNCHANGED <<registered, regOrder>>

getPaths ==
    /\ LET ids == FreshIds(heap, 1)
           r == [kind |-> "Paths", refs |-> <<PathsCopyRef(paths, ids[1])>>]
       IN Commit(Alloc(heap, ids, <<Spread(heap, paths)>>), r, snap)
    /\ last' = [op |-> "getPaths", key |-> ""]
    /\ UNCHANGED <<registered, regOrder>>

(***************************************************************************)
(* The caller.  types.ts declares Paths, Path and NavLink with writable    *)
(* members, so whoever holds a reference to one can assign to it.          *)
(***************************************************************************)
\* The value the caller writes to field f.
Mutated(f) ==
    CASE f = "path" -> Fn("fMutated")
      [] f = "navs" -> Arr(<<"mutated">>)
      [] OTHER -> Str("mutated")

\* Entries (references to heap objects) among the own properties of object r.
EntriesOf(h, r) ==
    IF ~IsHeapRef(r) THEN {}
    ELSE {h[r].props[k] : k \in {j \in DOMAIN h[r].props :
                               h[r].props[j].t = "object" /\ IsHeapRef(h[r].props[j].ref)}}

\* const snapshot = pathHelper.getPaths()
KeepSnapshot ==
    /\ last.op = "getPaths"
    /\ snap # ret.refs[1]
    /\ Commit(heap, ret, ret.refs[1])
    /\ last' = [op |-> "keep", key |-> ""]
    /\ UNCHANGED <<registered, regOrder>>

\* snapshot[key] = v
SnapshotSetKey(key, v) ==
    /\ IsHeapRef(snap)
    /\ Commit(Set(heap, snap, key, v), ret, snap)
    /\ last' = [op |-> "snapshot[k]=", key |-> key]
    /\ UNCHANGED <<registered, regOrder>>

\* delete snapshot[key]
SnapshotDeleteKey(key) ==
    /\ IsHeapRef(snap)
    /\ key \in DOMAIN heap[snap].props
    /\ Commit(Delete(heap, snap, key), ret, snap)
    /\ last' = [op |-> "delete snapshot[k]", key |-> key]
    /\ UNCHANGED <<registered, regOrder>>

\* snapshot[key][f] = Mutated(f)
SnapshotSetField(key, f) ==
    /\ IsHeapRef(snap)
    /\ key \in DOMAIN heap[snap].props
    /\ heap[snap].props[key] \in EntriesOf(heap, snap)
    /\ Commit(Set(heap, heap[snap].props[key].ref, f, Mutated(f)), ret, snap)
    /\ last' = [op |-> "snapshot[k].f=", key |-> key]
    /\ UNCHANGED <<registered, regOrder>>

\* view[f] = Mutated(f), for a view of the last result
ViewSetField(i, f) ==
    /\ ret.kind \in {"NavLink", "NavLink[]"}
    /\ i \in DOMAIN ret.refs
    /\ Commit(Set(heap, ret.refs[i], f, Mutated(f)), ret, snap)
    /\ last' = [op |-> "view.f=", key |-> f]
    /\ UNCHANGED <<registered, regOrder>>

(***************************************************************************)
(* Specifications.                                                         *)
(***************************************************************************)
\* Arguments (pathFunction, label, navs, group) of the registerPath calls; an
\* omitted argument is undefined (after the examples of README.md).
RegArgs ==
    { <<Fn("fRoot"), Str("Home"), Arr(<<"main">>), Undefined>>,
      <<Fn("fUser"), Str("Profile"), Arr(<<"main">>), Str("user")>>,
      <<Fn("fUser"), Str("Home"), Undefined, Undefined>>,
      <<Fn("fRoot"), Str("Profile"), Arr(<<"footer", "main", "footer">>), Str("")>> }

OrderArgs ==
    { <<Fn("fRoot"), Str("Home"), Arr(<<"main">>), Undefined>>,
      <<Fn("fUser"), Str("Profile"), Arr(<<"main">>), Str("user")>> }

CallerArgs ==
    { <<Fn("fRoot"), Str("Home"), Arr(<<"main">>), Undefined>>,
      <<Fn("fUser"), Str("Profile"), Arr(<<"main">>), Str("user")>> }

Init ==
    /\ paths = 1
    /\ heap = <<EmptyObject>>
    /\ ret = Void
    /\ snap = ObjectPrototype
    /\ registered = [k \in {} |-> Undefined]
    /\ regOrder = <<>>
    /\ last = [op |-> "new", key |-> ""]

\* The registry alone: construction, then any sequence of calls.
Next ==
    \/ \E key \in RegKeys, a \in RegArgs : registerPath(key, a[1], a[2], a[3], a[4])
    \/ \E navName \in NavNames : extractNavLinks(navName)
    \/ \E groupName \in GroupNames : extractGroupPaths(groupName)
    \/ \E key \in QueryKeys : getPath(key)
    \/ getPaths

Spec == Init /\ [][Next]_vars

\* Registrations under array-index and other keys, and the filtered lists.
NextOrder ==
    \/ \E key \in OrderKeys, a \in OrderArgs : registerPath(key, a[1], a[2], a[3], a[4])
    \/ \E navName \in {"main"} : extractNavLinks(navName)
    \/ \E groupName \in {"user"} : extractGroupPaths(groupName)

SpecOrder == Init /\ [][NextOrder]_vars

\* The registry and a caller that keeps a getPaths() result and writes to it.
NextSnapshot ==
    \/ \E key \in CallerKeys, a \in CallerArgs : registerPath(key, a[1], a[2], a[3], a[4])
    \/ getPaths
    \/ KeepSnapshot
    \/ \E key \in CallerKeys : SnapshotSetKey(key, Undefined)
    \/ \E key \in CallerKeys : SnapshotDeleteKey(key)
    \/ \E key \in CallerKeys, f \in {"path", "label", "navs", "group"} :
          SnapshotSetField(key, f)

SpecSnapshot == Init /\ [][NextSnapshot]_vars

\* The registry and a caller that writes to the views it was returned.
NextView ==
    \/ \E key \in RegKeys, a \in CallerArgs : registerPath(key, a[1], a[2], a[3], a[4])
    \/ \E navName \in {"main"} : extractNavLinks(navName)
    \/ \E groupName \in {"user"} : extractGroupPaths(groupName)
    \/ \E key \in RegKeys : getPath(key)
    \/ \E i \in DOMAIN ret.refs, f \in {"path", "label", "group"} : ViewSetField(i, f)

SpecView == Init /\ [][NextView]_vars

(***************************************************************************)
(* Vocabulary of the properties.  What was registered comes from the       *)
(* history variables; what the registry answers comes from the heap.       *)
(***************************************************************************)
\* The view of an entry registered with arguments a.
ExpectedNavLink(a) ==
    [k \in {"path", "label", "group"} |->
        CASE k = "path" -> a.path [] k = "label" -> a.label [] k = "group" -> a.group]

\* The entry stored for arguments a: navs is empty when it was omitted.
ExpectedPath(a) ==
    [k \in {"path", "label", "navs", "group"} |->
        CASE k = "path" -> a.path
          [] k = "label" -> a.label
          [] k = "navs" -> (IF a.navs = Undefined THEN Arr(<<>>) ELSE a.navs)
          [] k = "group" -> a.group]

\* The properties of the object v refers to (none for any other value).
PropsOf(h, v) ==
    IF v.t = "object" /\ IsHeapRef(v.ref) THEN h[v.ref].props ELSE EmptyProps

\* The views of the last result.
RetViews == [i \in DOMAIN ret.refs |-> heap[ret.refs[i]].props]

\* The entry the registry holds for each registered key.
StoredEntries == [k \in DOMAIN registered |-> PropsOf(heap, Get(heap, paths, k))]

\* A value with what it refers to in place of the reference.
DeepValue(h, v) ==
    IF v.t = "object" /\ IsHeapRef(v.ref)
    THEN [v |-> Obj(ObjectPrototype), props |-> h[v.ref].props]
    ELSE [v |-> v, props |-> EmptyProps]

\* An object of the shape of this.paths as its holder sees it.
DeepPaths(h, o) ==
    [keys |-> OwnKeys(o),
     entries |-> [k \in DOMAIN o.props |-> DeepValue(h, o.props[k])],
     proto |-> DeepValue(h, ProtoValue(o.proto))]

CallValue(h, call) ==
    [kind |-> call.kind, views |-> [i \in DOMAIN call.src |-> NavLink(h, call.src[i]).props]]

\* The answer of every query the registry offers when the heap is h.
QueryResults(h) ==
    [getPath |-> [k \in QueryKeys |-> CallValue(h, getPathCall(h, k))],
     extractNavLinks |->
        [n \in {"main", "mutated"} |-> CallValue(h, extractNavLinksCall(h, n))],
     extractGroupPaths |->
        [g \in {"user", "mutated"} |-> CallValue(h, extractGroupPathsCall(h, g))],
     getPaths |-> DeepPaths(h, Spread(h, paths))]

\* The registered key k matches the argument of the filtering query op.
Matches(k, op, arg) ==
    IF op = "extractNavLinks"
    THEN registered[k].navs.t = "array" /\ arg \in Range(registered[k].navs.arr)
    ELSE registered[k].group = Str(arg)

\* The sequence of views equals, as a bag, one view per matching key.
OneViewPerMatch(views, op, arg) ==
    LET matching == {k \in DOMAIN registered : Matches(k, op, arg)}
    IN \A x \in Range(views) \cup {ExpectedNavLink(registered[k]) : k \in matching} :
          Cardinality({i \in DOMAIN views : views[i] = x})
            = Cardinality({k \in matching : ExpectedNavLink(registered[k]) = x})

\* The views of the registered keys ks, in that order.
ViewsOfKeys(ks) == [i \in DOMAIN ks |-> ExpectedNavLink(registered[ks[i]])]

(***************************************************************************)
(* C1.  Round trip: immediately after registerPath(key, fn, label, navs,   *)
(* group), getPath(key) returns a view with that label, that group         *)
(* (undefined when omitted) and the function fn.                           *)
(***************************************************************************)
C1_RoundTrip ==
    last.op = "registerPath" =>
        LET call == getPathCall(heap, last.key)
        IN /\ call.kind = "NavLink"
           /\ NavLink(heap, call.src[1]).props = ExpectedNavLink(registered[last.key])

C1_Witness ==
    /\ last.op = "registerPath"
    /\ registered[last.key].group = Str("user")
    /\ Cardinality(DOMAIN registered) = 3
    /\ getPathCall(heap, last.key).kind = "NavLink"

(***************************************************************************)
(* C2.  Overwrite: the entry of every registered key is exactly the data   *)
(* of the latest registerPath call for it (navs empty and group undefined  *)
(* when they were omitted), and the object getPaths() returns has exactly  *)
(* one entry for that key, with that data.                                 *)
(***************************************************************************)
C2_Overwrite ==
    /\ \A k \in DOMAIN registered : StoredEntries[k] = ExpectedPath(registered[k])
    /\ last.op = "getPaths" =>
          \A k \in DOMAIN registered :
             LET copy == heap[ret.refs[1]]
             IN /\ Cardinality({i \in DOMAIN OwnKeys(copy) : OwnKeys(copy)[i] = k}) = 1
                /\ PropsOf(heap, copy.props[k]) = ExpectedPath(registered[k])

(***************************************************************************)
(* C3.  Nav filtering: extractNavLinks(n) returns exactly one view for     *)
(* each registered key whose latest navs contains n, and nothing else.     *)
(***************************************************************************)
C3_NavFiltering ==
    last.op = "extractNavLinks" =>
        /\ ret.kind = "NavLink[]"
        /\ OneViewPerMatch(RetViews, "extractNavLinks", last.key)

(***************************************************************************)
(* C4.  Group filtering: extractGroupPaths(g) returns exactly the entries  *)
(* of the registered keys whose latest group equals g; an entry without a  *)
(* group is returned for no g.                                             *)
(***************************************************************************)
C4_GroupFiltering ==
    last.op = "extractGroupPaths" =>
        /\ ret.kind = "NavLink[]"
        /\ OneViewPerMatch(RetViews, "extractGroupPaths", last.key)

(***************************************************************************)
(* C7.  Miss: getPath(k) for a key k that was never registered returns     *)
(* undefined and does not throw, in every state and for every key,         *)
(* built-in member names and field names of entries included.              *)
(***************************************************************************)
C7_Miss ==
    /\ \A k \in QueryKeys \ DOMAIN registered : getPathCall(heap, k).kind = "undefined"
    /\ (last.op = "getPath" /\ last.key \notin DOMAIN registered) =>
          ret = [kind |-> "undefined", refs |-> <<>>]

C7_Witness ==
    /\ last = [op |-> "getPath", key |-> "label"]
    /\ "__proto__" \in DOMAIN registered
    /\ "home" \in DOMAIN registered
    /\ ret.kind = "undefined"

(***************************************************************************)
(* C10.  Frame: extractNavLinks, extractGroupPaths, getPath and getPaths    *)
(* leave every stored entry unchanged; registerPath(k, ...) leaves the     *)
(* entries of the other keys unchanged; no registered key is ever lost,    *)
(* and getPath of a registered key returns a view in every later state.    *)
(***************************************************************************)
C10_OnlyRegisterPathWrites ==
    [][ /\ last'.op \in {"extractNavLinks", "extractGroupPaths", "getPath", "getPaths"}
              => StoredEntries' = StoredEntries
        /\ last'.op = "registerPath" =>
              \A k \in DOMAIN registered \ {last'.key} :
                 StoredEntries'[k] = StoredEntries[k]
        /\ DOMAIN registered \subseteq DOMAIN registered'
        /\ \A k \in DOMAIN registered : (getPathCall(heap, k).kind = "NavLink")'
      ]_vars

C10_Witness ==
    /\ last.op = "registerPath"
    /\ Cardinality(DOMAIN registered \ {last.key}) = 2
    /\ StoredEntries[last.key] # ExpectedPath([path |-> Fn("fRoot"), label |-> Str("Home"),
                                                 navs |-> Arr(<<"main">>), group |-> Undefined])

(***************************************************************************)
(* C8.  Result order, as claimed: extractNavLinks and extractGroupPaths    *)
(* return the matching views in the order in which their keys were first   *)
(* registered.                                                             *)
(***************************************************************************)
C8_RegistrationOrder ==
    last.op \in {"extractNavLinks", "extractGroupPaths"} =>
        RetViews = ViewsOfKeys(SelectSeq(regOrder, LAMBDA k : Matches(k, last.op, last.key)))

\* The order in which Object.values walks the registered keys: the keys that
\* are array indices in ascending numeric order, then the others in the order
\* of their first registration ("__proto__" is never walked).
IterationOrder ==
    SortedIndexKeys(DOMAIN registered \cap ArrayIndexKeys)
        \o SelectSeq(regOrder, LAMBDA k : k \notin ArrayIndexKeys /\ k # "__proto__")

(***************************************************************************)
(* C8, amended.  The matching views are returned in the iteration order of *)
(* the underlying object: entries whose key is an array index ("2", "10")  *)
(* first, in ascending numeric order of the key, then the entries of the   *)
(* other keys in the order of their first registration; labels play no     *)
(* part.                                                                   *)
(***************************************************************************)
C8_IterationOrder ==
    last.op \in {"extractNavLinks", "extractGroupPaths"} =>
        RetViews = ViewsOfKeys(SelectSeq(IterationOrder, LAMBDA k : Matches(k, last.op, last.key)))

C8_Witness ==
    /\ last.op = "extractNavLinks"
    /\ regOrder = <<"home", "10", "about", "2">>
    /\ Len(ret.refs) = 4
    /\ RetViews[1] # RetViews[2]
    /\ RetViews[3] # RetViews[4]

\* The snapshot the caller kept, as the caller sees it.
SnapshotSeen == DeepPaths(heap, heap[snap])

\* The objects reachable from this.paths.
RegistryRefs == Range(Walk(heap, <<paths>>, <<>>))

(***************************************************************************)
(* C5.  Snapshot independence, caller writes: no write to the object       *)
(* getPaths() returned (setting, replacing or deleting a key, or setting a *)
(* field of an entry reached through it) changes the answer of any query.  *)
(***************************************************************************)
C5_SnapshotWritesInvisible ==
    [][ last'.op \in {"snapshot[k]=", "delete snapshot[k]", "snapshot[k].f="}
            => (paths' = paths /\ QueryResults(heap') = QueryResults(heap)) ]_vars

(***************************************************************************)
(* C6.  Snapshot independence, later registration: a registerPath call,    *)
(* for a new key or one already in the snapshot, changes neither the keys  *)
(* of a snapshot returned earlier nor the entry seen through it for any    *)
(* key.                                                                    *)
(***************************************************************************)
C6_SnapshotFixed ==
    [][ (last'.op = "registerPath" /\ IsHeapRef(snap)) => SnapshotSeen' = SnapshotSeen ]_vars

C6_Witness ==
    /\ IsHeapRef(snap)
    /\ last.op = "registerPath"
    /\ last.key \in DOMAIN heap[snap].props
    /\ last.key \in DOMAIN heap[paths].props
    /\ heap[snap].props[last.key].t = "object"
    /\ PropsOf(heap, heap[snap].props[last.key]) = ExpectedPath(
          [path |-> Fn("fRoot"), label |-> Str("Home"), navs |-> Arr(<<"main">>),
           group |-> Undefined])
    /\ registered[last.key].label = Str("Profile")
    /\ "__proto__" \in DOMAIN registered

(***************************************************************************)
(* C9.  View isolation: a view returned by getPath, extractNavLinks or     *)
(* extractGroupPaths is a new object with the properties path, label and   *)
(* group only, and a write to a field of a returned view changes neither a *)
(* stored entry nor the answer of any query.                               *)
(***************************************************************************)
C9_ViewIsolation ==
    [][ /\ last.op \in {"getPath", "extractNavLinks", "extractGroupPaths"} =>
              \A i \in DOMAIN ret.refs :
                  /\ DOMAIN heap[ret.refs[i]].props = {"path", "label", "group"}
                  /\ ret.refs[i] \notin RegistryRefs
                  /\ \A j \in DOMAIN ret.refs : ret.refs[j] = ret.refs[i] => j = i
        /\ last'.op = "view.f=" =>
              /\ paths' = paths
              /\ QueryResults(heap') = QueryResults(heap)
              /\ StoredEntries' = StoredEntries
      ]_vars

C9_Witness ==
    /\ last = [op |-> "view.f=", key |-> "label"]
    /\ ret.kind = "NavLink[]"
    /\ Len(ret.refs) = 2
    /\ RetViews[1]["label"] = Str("mutated")
    /\ RetViews[2]["label"] = Str("Profile")
    /\ \A k \in DOMAIN registered : StoredEntries[k]["label"] # Str("mutated")

====
